---- MODULE Spec2Model ----
(***************************************************************************)
(* KFileItemModelFilter (dolphin, src/kitemviews/private): the filter of   *)
(* the item model.  A QString is a sequence of one-character strings, a    *)
(* QStringList a sequence of those, a KFileItem a record of the three      *)
(* attributes the filter reads (text(), isHidden(), mimetype()).  A        *)
(* QRegularExpression is a record of its pattern, kept as the sequence of  *)
(* pattern elements PCRE parses it into, and its case option.              *)
(***************************************************************************)
EXTENDS Integers, Sequences, FiniteSets, TLC

VARIABLES m_useRegExp, m_regExp, m_lowerCasePattern, m_pattern,
          m_mimeTypes, m_excludeMimeTypes,
          m_hiddenFilesShown, m_hiddenWhitelistEnabled,
          m_hiddenWhitelist, m_hiddenWhitelistRegExps,
          lastCall, lastItem, lastResult

fields == <<m_useRegExp, m_regExp, m_lowerCasePattern, m_pattern,
            m_mimeTypes, m_excludeMimeTypes,
            m_hiddenFilesShown, m_hiddenWhitelistEnabled,
            m_hiddenWhitelist, m_hiddenWhitelistRegExps>>

vars == <<fields, lastCall, lastItem, lastResult>>

-----------------------------------------------------------------------------
(* Bounds of the explored inputs.                                          *)

\* longest MIME list handed to setMimeTypes / setExcludeMimeTypes
MaxMimeLen == 2

\* longest pattern list handed to setHiddenFilesWhitelist
MaxWhitelistLen == 2

-----------------------------------------------------------------------------
(* QString                                                                 *)

Min(S) == CHOOSE x \in S : \A y \in S : x <= y

Max(S) == CHOOSE x \in S : \A y \in S : x >= y

\* QChar::toLower on the letters of the explored alphabet
LowerChar(c) ==
    CASE c = "A" -> "a"
      [] c = "B" -> "b"
      [] OTHER -> c

\* QString::toLower
toLower(s) == [i \in 1..Len(s) |-> LowerChar(s[i])]

\* QString::contains(QString): sub occurs in s as a contiguous run
containsStr(s, sub) ==
    \E i \in 0..(Len(s) - Len(sub)) : SubSeq(s, i + 1, i + Len(sub)) = sub

\* QString::contains(QChar)
containsChar(s, c) == \E i \in 1..Len(s) : s[i] = c

\* QChar::isSpace on the explored alphabet
isSpace(c) == c = " "

\* QString::trimmed: leading and trailing whitespace removed
trimmed(s) ==
    LET keep == {i \in 1..Len(s) : ~isSpace(s[i])}
    IN  IF keep = {} THEN <<>> ELSE SubSeq(s, Min(keep), Max(keep))

\* the test both setPattern and updateHiddenWhitelistRegExps make
containsWildcard(s) ==
    containsChar(s, "*") \/ containsChar(s, "?") \/ containsChar(s, "[")

-----------------------------------------------------------------------------
(* QRegularExpression                                                      *)

\* one element of a pattern: t is its kind, c the characters it carries
Tok(t, c) == [t |-> t, c |-> c]

\* QRegularExpression::wildcardToRegularExpression before anchoring:
\*   '*' -> [^/]*   '?' -> [^/]   '[' ... ']' -> a character class
\*   ("[!" negates, a ']' right after the opening is a member), every
\*   other character stands for itself.  A class that is never closed
\*   leaves a pattern PCRE rejects.
RECURSIVE wildcardBody(_, _)
wildcardBody(wc, i) ==
    IF i > Len(wc) THEN <<>>
    ELSE
      CASE wc[i] = "*" -> <<Tok("star", <<>>)>> \o wildcardBody(wc, i + 1)
        [] wc[i] = "?" -> <<Tok("any1", <<>>)>> \o wildcardBody(wc, i + 1)
        [] wc[i] = "[" ->
             LET neg    == i + 1 <= Len(wc) /\ wc[i + 1] = "!"
                 first  == IF neg THEN i + 2 ELSE i + 1
                 from   == IF first <= Len(wc) /\ wc[first] = "]"
                           THEN first + 1 ELSE first
                 closes == {j \in from..Len(wc) : wc[j] = "]"}
             IN  IF closes = {}
                 THEN <<Tok("unterminated", SubSeq(wc, first, Len(wc)))>>
                 ELSE <<Tok(IF neg THEN "nclass" ELSE "class",
                            SubSeq(wc, first, Min(closes) - 1))>>
                      \o wildcardBody(wc, Min(closes) + 1)
        [] OTHER -> <<Tok("lit", <<wc[i]>>)>> \o wildcardBody(wc, i + 1)

\* QRegularExpression::wildcardToRegularExpression: \A(?: ... )\z
wildcardToRegularExpression(wc) ==
    <<Tok("A", <<>>)>> \o wildcardBody(wc, 1) \o <<Tok("z", <<>>)>>

\* QRegularExpression::escape: every character of s stands for itself
escape(s) == [i \in 1..Len(s) |-> Tok("lit", <<s[i]>>)]

\* QStringLiteral("^%1$").arg(QRegularExpression::escape(trimmed))
exactPattern(s) == <<Tok("bol", <<>>)>> \o escape(s) \o <<Tok("eol", <<>>)>>

\* QRegularExpression(pattern) followed by setPatternOptions(CaseInsensitiveOption)
RegExp(pattern) == [pattern |-> pattern, caseInsensitive |-> TRUE]

\* QRegularExpression::isValid
isValid(re) == \A k \in 1..Len(re.pattern) : re.pattern[k].t # "unterminated"

\* one character against one character of the pattern
sameChar(a, b, ci) == IF ci THEN LowerChar(a) = LowerChar(b) ELSE a = b

inClass(a, members, ci) ==
    \E m \in 1..Len(members) : sameChar(a, members[m], ci)

\* the pattern from element k on matches s from position i on
RECURSIVE matchAt(_, _, _, _, _)
matchAt(p, k, s, i, ci) ==
    IF k > Len(p) THEN TRUE
    ELSE
      CASE p[k].t = "A"   -> i = 1 /\ matchAt(p, k + 1, s, i, ci)
        [] p[k].t = "bol" -> i = 1 /\ matchAt(p, k + 1, s, i, ci)
        [] p[k].t = "z"   -> i = Len(s) + 1 /\ matchAt(p, k + 1, s, i, ci)
        [] p[k].t = "eol" ->
             /\ \/ i = Len(s) + 1
                \/ i = Len(s) /\ s[i] = "\n"
             /\ matchAt(p, k + 1, s, i, ci)
        [] p[k].t = "star" ->
             \/ matchAt(p, k + 1, s, i, ci)
             \/ i <= Len(s) /\ s[i] # "/" /\ matchAt(p, k, s, i + 1, ci)
        [] p[k].t = "any1" ->
             i <= Len(s) /\ s[i] # "/" /\ matchAt(p, k + 1, s, i + 1, ci)
        [] p[k].t = "lit" ->
             /\ i <= Len(s)
             /\ sameChar(s[i], p[k].c[1], ci)
             /\ matchAt(p, k + 1, s, i + 1, ci)
        [] p[k].t = "class" ->
             /\ i <= Len(s)
             /\ inClass(s[i], p[k].c, ci)
             /\ matchAt(p, k + 1, s, i + 1, ci)
        [] p[k].t = "nclass" ->
             /\ i <= Len(s)
             /\ ~inClass(s[i], p[k].c, ci)
             /\ matchAt(p, k + 1, s, i + 1, ci)
        [] OTHER -> FALSE

\* QRegularExpression::match(s).hasMatch(): a match starting anywhere in s;
\* an invalid expression matches nothing
hasMatch(re, s) ==
    /\ isValid(re)
    /\ \E i \in 1..(Len(s) + 1) : matchAt(re.pattern, 1, s, i, re.caseInsensitive)

-----------------------------------------------------------------------------
(* The filter object and its methods                                       *)

this ==
    [m_useRegExp              |-> m_useRegExp,
     m_regExp                 |-> m_regExp,
     m_lowerCasePattern       |-> m_lowerCasePattern,
     m_pattern                |-> m_pattern,
     m_mimeTypes              |-> m_mimeTypes,
     m_excludeMimeTypes       |-> m_excludeMimeTypes,
     m_hiddenFilesShown       |-> m_hiddenFilesShown,
     m_hiddenWhitelistEnabled |-> m_hiddenWhitelistEnabled,
     m_hiddenWhitelist        |-> m_hiddenWhitelist,
     m_hiddenWhitelistRegExps |-> m_hiddenWhitelistRegExps]

\* KFileItemModelFilter(): m_regExp is <<>> for nullptr, <<re>> once allocated
KFileItemModelFilter ==
    [m_useRegExp              |-> FALSE,
     m_regExp                 |-> <<>>,
     m_lowerCasePattern       |-> <<>>,
     m_pattern                |-> <<>>,
     m_mimeTypes              |-> <<>>,
     m_excludeMimeTypes       |-> <<>>,
     m_hiddenFilesShown       |-> TRUE,
     m_hiddenWhitelistEnabled |-> FALSE,
     m_hiddenWhitelist        |-> <<>>,
     m_hiddenWhitelistRegExps |-> <<>>]

\* a plausible slip: the else branch that clears m_useRegExp is missing
setPattern_KeepsMode(f, filter) ==
    LET f1 == [f EXCEPT !.m_pattern = filter,
                        !.m_lowerCasePattern = toLower(filter)]
    IN  IF containsWildcard(filter)
        THEN LET re0 == IF f1.m_regExp = <<>> THEN RegExp(<<>>) ELSE f1.m_regExp[1]
                 re  == [re0 EXCEPT !.pattern = wildcardToRegularExpression(filter)]
             IN  [f1 EXCEPT !.m_regExp = <<re>>, !.m_useRegExp = isValid(re)]
        ELSE f1

setPattern(f, filter) ==
    LET f1 == [f EXCEPT !.m_pattern = filter,
                        !.m_lowerCasePattern = toLower(filter)]
    IN  IF containsWildcard(filter)
        THEN LET re0 == IF f1.m_regExp = <<>> THEN RegExp(<<>>) ELSE f1.m_regExp[1]
                 re  == [re0 EXCEPT !.pattern = wildcardToRegularExpression(filter)]
             IN  [f1 EXCEPT !.m_regExp = <<re>>, !.m_useRegExp = isValid(re)]
        ELSE [f1 EXCEPT !.m_useRegExp = FALSE]

pattern(f) == f.m_pattern

setMimeTypes(f, types) == [f EXCEPT !.m_mimeTypes = types]

mimeTypes(f) == f.m_mimeTypes

setExcludeMimeTypes(f, types) == [f EXCEPT !.m_excludeMimeTypes = types]

excludeMimeTypes(f) == f.m_excludeMimeTypes

setHiddenFilesShown(f, shown) == [f EXCEPT !.m_hiddenFilesShown = shown]

hiddenFilesShown(f) == f.m_hiddenFilesShown

setHiddenFilesWhitelistEnabled(f, enabled) ==
    [f EXCEPT !.m_hiddenWhitelistEnabled = enabled]

hiddenFilesWhitelistEnabled(f) == f.m_hiddenWhitelistEnabled

\* the body of the loop of updateHiddenWhitelistRegExps for one entry:
\* the list of matchers after the entry, given the list before it
compileEntry(regExps, entry) ==
    LET t == trimmed(entry)
    IN  IF t = <<>> THEN regExps
        ELSE IF containsWildcard(t)
             THEN LET regExp == RegExp(wildcardToRegularExpression(t))
                  IN  IF isValid(regExp) THEN Append(regExps, regExp) ELSE regExps
             ELSE Append(regExps, RegExp(exactPattern(t)))

\* the loop over m_hiddenWhitelist, from entry i on
RECURSIVE compileFrom(_, _, _)
compileFrom(list, i, regExps) ==
    IF i > Len(list) THEN regExps
    ELSE compileFrom(list, i + 1, compileEntry(regExps, list[i]))

\* a plausible slip: the clear() at the top is missing
updateHiddenWhitelistRegExps_NoClear(f) ==
    [f EXCEPT !.m_hiddenWhitelistRegExps =
                  compileFrom(f.m_hiddenWhitelist, 1, f.m_hiddenWhitelistRegExps)]

\* a plausible slip: break instead of continue, the loop stops at the first
\* entry that gives no matcher
RECURSIVE compileFrom_Break(_, _, _)
compileFrom_Break(list, i, regExps) ==
    IF i > Len(list) THEN regExps
    ELSE IF compileEntry(regExps, list[i]) = regExps THEN regExps
         ELSE compileFrom_Break(list, i + 1, compileEntry(regExps, list[i]))

updateHiddenWhitelistRegExps_Break(f) ==
    [f EXCEPT !.m_hiddenWhitelistRegExps =
                  compileFrom_Break(f.m_hiddenWhitelist, 1, <<>>)]

updateHiddenWhitelistRegExps(f) ==
    [f EXCEPT !.m_hiddenWhitelistRegExps = compileFrom(f.m_hiddenWhitelist, 1, <<>>)]

setHiddenFilesWhitelist(f, patterns) ==
    updateHiddenWhitelistRegExps([f EXCEPT !.m_hiddenWhitelist = patterns])

hiddenFilesWhitelist(f) == f.m_hiddenWhitelist

matchesHiddenWhitelist(f, item) ==
    \E k \in 1..Len(f.m_hiddenWhitelistRegExps) :
        hasMatch(f.m_hiddenWhitelistRegExps[k], item.text)

\* a plausible slip: the hidden-files term is missing
hasSetFilters_NoHidden(f) ==
    f.m_pattern # <<>> \/ f.m_mimeTypes # <<>> \/ f.m_excludeMimeTypes # <<>>

hasSetFilters(f) ==
    \/ f.m_pattern # <<>>
    \/ f.m_mimeTypes # <<>>
    \/ f.m_excludeMimeTypes # <<>>
    \/ ~f.m_hiddenFilesShown

matchesPattern(f, item) ==
    IF f.m_useRegExp
    THEN hasMatch(f.m_regExp[1], item.text)
    ELSE containsStr(toLower(item.text), f.m_lowerCasePattern)

\* a plausible slip: the include list is looked at first
matchesType_IncludeFirst(f, item) ==
    IF \E k \in 1..Len(f.m_mimeTypes) : item.mimetype = f.m_mimeTypes[k]
    THEN TRUE
    ELSE IF \E k \in 1..Len(f.m_excludeMimeTypes) :
                item.mimetype = f.m_excludeMimeTypes[k]
         THEN FALSE
         ELSE f.m_mimeTypes = <<>>

matchesType(f, item) ==
    IF \E k \in 1..Len(f.m_excludeMimeTypes) :
           item.mimetype = f.m_excludeMimeTypes[k]
    THEN FALSE
    ELSE IF \E k \in 1..Len(f.m_mimeTypes) : item.mimetype = f.m_mimeTypes[k]
         THEN TRUE
         ELSE f.m_mimeTypes = <<>>

\* a plausible slip: || for && in the whitelist test
hiddenGate_Or(f, item) ==
    IF ~f.m_hiddenFilesShown /\ item.isHidden
    THEN f.m_hiddenWhitelistEnabled \/ matchesHiddenWhitelist(f, item)
    ELSE TRUE

\* a plausible slip: the gate forgets to look at m_hiddenFilesShown
hiddenGate_AlwaysHides(f, item) ==
    IF item.isHidden
    THEN f.m_hiddenWhitelistEnabled /\ matchesHiddenWhitelist(f, item)
    ELSE TRUE

\* a plausible slip: the gate forgets to look at item.isHidden()
hiddenGate_AllItems(f, item) ==
    IF ~f.m_hiddenFilesShown
    THEN f.m_hiddenWhitelistEnabled /\ matchesHiddenWhitelist(f, item)
    ELSE TRUE

\* matches(), first part: FALSE when the item is filtered out as a hidden file
hiddenGate(f, item) ==
    IF ~f.m_hiddenFilesShown /\ item.isHidden
    THEN f.m_hiddenWhitelistEnabled /\ matchesHiddenWhitelist(f, item)
    ELSE TRUE

\* a plausible slip: hasMimeTypesFilter looks at the include list alone
filterVerdict_IncludeOnly(f, item) ==
    LET hasPatternFilter   == f.m_pattern # <<>>
        hasMimeTypesFilter == f.m_mimeTypes # <<>>
    IN  IF ~hasPatternFilter /\ ~hasMimeTypesFilter THEN TRUE
        ELSE IF hasPatternFilter /\ hasMimeTypesFilter
             THEN matchesPattern(f, item) /\ matchesType(f, item)
             ELSE IF hasPatternFilter THEN matchesPattern(f, item)
                  ELSE matchesType(f, item)

\* matches(), second part: the pattern and MIME filters
filterVerdict(f, item) ==
    LET hasPatternFilter   == f.m_pattern # <<>>
        hasMimeTypesFilter == f.m_mimeTypes # <<>> \/ f.m_excludeMimeTypes # <<>>
    IN  IF ~hasPatternFilter /\ ~hasMimeTypesFilter THEN TRUE
        ELSE IF hasPatternFilter /\ hasMimeTypesFilter
             THEN matchesPattern(f, item) /\ matchesType(f, item)
             ELSE IF hasPatternFilter THEN matchesPattern(f, item)
                  ELSE matchesType(f, item)

\* a plausible slip: a whitelisted hidden item is accepted on the spot
matches_WhitelistAccepts(f, item) ==
    IF ~f.m_hiddenFilesShown /\ item.isHidden
    THEN f.m_hiddenWhitelistEnabled /\ matchesHiddenWhitelist(f, item)
    ELSE filterVerdict(f, item)

matches(f, item) ==
    IF ~hiddenGate(f, item) THEN FALSE ELSE filterVerdict(f, item)

-----------------------------------------------------------------------------
(* Inputs                                                                  *)

Seqs(S, n) == UNION {[1..k -> S] : k \in 0..n}

\* display names of the items
Names == { <<".", "a">>, <<".", "A", "b">>, <<"b", "a">>, <<"b", "[">> }

FewNames == { <<".", "a">>, <<"b", "a">> }

HiddenNames == { <<".", "a">>, <<".", "A", "b">>, <<"b", "[">> }

MimeTypeNames == {"text/plain", "image/png"}

ItemsNamed(names) ==
    [text : names, isHidden : BOOLEAN, mimetype : MimeTypeNames]

KFileItems == ItemsNamed(Names)

\* name patterns: none, a substring in upper case, two globs, a glob that
\* does not compile
Patterns == { <<>>, <<"A">>, <<"*", "b">>, <<"?", "A">>, <<"[">> }

FewPatterns == { <<>>, <<"A">> }

MimeLists == Seqs(MimeTypeNames, MaxMimeLen)

FewMimeLists == { <<>>, <<"text/plain">> }

NoMimeLists == { <<>> }

\* whitelist entries: a plain name to trim and to fold, a glob, a glob that
\* does not compile, an entry of whitespace
WhitelistEntries ==
    { <<" ", ".", "A", " ">>, <<"*", "b">>, <<"[">>, <<" ">> }

Whitelists == Seqs(WhitelistEntries, MaxWhitelistLen)

FewWhitelists == { <<>>, <<<<".", "a">>>> }

-----------------------------------------------------------------------------
(* The state machine: one action per public method                         *)

\* no item: lastItem while the last call was not matches()
NoItem == [text |-> <<>>, isHidden |-> FALSE, mimetype |-> ""]

Init ==
    /\ m_useRegExp = KFileItemModelFilter.m_useRegExp
    /\ m_regExp = KFileItemModelFilter.m_regExp
    /\ m_lowerCasePattern = KFileItemModelFilter.m_lowerCasePattern
    /\ m_pattern = KFileItemModelFilter.m_pattern
    /\ m_mimeTypes = KFileItemModelFilter.m_mimeTypes
    /\ m_excludeMimeTypes = KFileItemModelFilter.m_excludeMimeTypes
    /\ m_hiddenFilesShown = KFileItemModelFilter.m_hiddenFilesShown
    /\ m_hiddenWhitelistEnabled = KFileItemModelFilter.m_hiddenWhitelistEnabled
    /\ m_hiddenWhitelist = KFileItemModelFilter.m_hiddenWhitelist
    /\ m_hiddenWhitelistRegExps = KFileItemModelFilter.m_hiddenWhitelistRegExps
    /\ lastCall = "KFileItemModelFilter"
    /\ lastItem = NoItem
    /\ lastResult = FALSE

\* the object becomes f
Becomes(f) ==
    /\ m_useRegExp' = f.m_useRegExp
    /\ m_regExp' = f.m_regExp
    /\ m_lowerCasePattern' = f.m_lowerCasePattern
    /\ m_pattern' = f.m_pattern
    /\ m_mimeTypes' = f.m_mimeTypes
    /\ m_excludeMimeTypes' = f.m_excludeMimeTypes
    /\ m_hiddenFilesShown' = f.m_hiddenFilesShown
    /\ m_hiddenWhitelistEnabled' = f.m_hiddenWhitelistEnabled
    /\ m_hiddenWhitelist' = f.m_hiddenWhitelist
    /\ m_hiddenWhitelistRegExps' = f.m_hiddenWhitelistRegExps

Returned(call, item, result) ==
    /\ lastCall' = call
    /\ lastItem' = item
    /\ lastResult' = result

SetPattern(filter) ==
    /\ Becomes(setPattern(this, filter))
    /\ Returned("setPattern", NoItem, FALSE)

SetMimeTypes(types) ==
    /\ Becomes(setMimeTypes(this, types))
    /\ Returned("setMimeTypes", NoItem, FALSE)

SetExcludeMimeTypes(types) ==
    /\ Becomes(setExcludeMimeTypes(this, types))
    /\ Returned("setExcludeMimeTypes", NoItem, FALSE)

SetHiddenFilesShown(shown) ==
    /\ Becomes(setHiddenFilesShown(this, shown))
    /\ Returned("setHiddenFilesShown", NoItem, FALSE)

SetHiddenFilesWhitelistEnabled(enabled) ==
    /\ Becomes(setHiddenFilesWhitelistEnabled(this, enabled))
    /\ Returned("setHiddenFilesWhitelistEnabled", NoItem, FALSE)

SetHiddenFilesWhitelist(patterns) ==
    /\ Becomes(setHiddenFilesWhitelist(this, patterns))
    /\ Returned("setHiddenFilesWhitelist", NoItem, FALSE)

HasSetFilters ==
    /\ UNCHANGED fields
    /\ Returned("hasSetFilters", NoItem, hasSetFilters(this))

Matches(item) ==
    /\ UNCHANGED fields
    /\ Returned("matches", item, matches(this, item))

\* every method, with its arguments drawn from the given sets
NextOver(patterns, includes, excludes, whitelists, items) ==
    \/ \E filter \in patterns : SetPattern(filter)
    \/ \E types \in includes : SetMimeTypes(types)
    \/ \E types \in excludes : SetExcludeMimeTypes(types)
    \/ \E shown \in BOOLEAN : SetHiddenFilesShown(shown)
    \/ \E enabled \in BOOLEAN : SetHiddenFilesWhitelistEnabled(enabled)
    \/ \E list \in whitelists : SetHiddenFilesWhitelist(list)
    \/ HasSetFilters
    \/ \E item \in items : Matches(item)

\* all name patterns, few MIME lists and whitelists
Next == NextOver(Patterns, FewMimeLists, FewMimeLists, FewWhitelists, KFileItems)

Spec == Init /\ [][Next]_vars

\* all MIME lists up to MaxMimeLen, few patterns and whitelists
NextType ==
    NextOver(FewPatterns, MimeLists, MimeLists, FewWhitelists, ItemsNamed(FewNames))

SpecType == Init /\ [][NextType]_vars

\* all whitelists up to MaxWhitelistLen, few patterns and MIME lists
NextHidden ==
    NextOver(FewPatterns, FewMimeLists, NoMimeLists, Whitelists,
             ItemsNamed(HiddenNames))

SpecHidden == Init /\ [][NextHidden]_vars

-----------------------------------------------------------------------------
(* Properties                                                              *)

Range(s) == {s[k] : k \in 1..Len(s)}

\* some compiled whitelist matcher matches the name of the item
Whitelisted(item) ==
    \E k \in 1..Len(m_hiddenWhitelistRegExps) :
        hasMatch(m_hiddenWhitelistRegExps[k], item.text)

\* the item is not hidden, or hidden files are shown
GateOpen(item) == ~item.isHidden \/ m_hiddenFilesShown

\* the item passes the hidden-file gate, the whitelist included
PassesGate(item) ==
    GateOpen(item) \/ (m_hiddenWhitelistEnabled /\ Whitelisted(item))

\* C1: while hidden files are not shown and the whitelist is disabled,
\* matches() is false for every hidden item, whatever the pattern, the MIME
\* lists, the stored whitelist and the item's name and MIME type are.
C1_Theorem ==
    (~m_hiddenFilesShown /\ ~m_hiddenWhitelistEnabled) =>
        /\ \A item \in KFileItems : item.isHidden => ~matches(this, item)
        /\ (lastCall = "matches" /\ lastItem.isHidden) => ~lastResult

\* matches() was asked about a hidden item the stored whitelist names and
\* the other filters accept, with the whitelist disabled
C1_Witness ==
    /\ lastCall = "matches"
    /\ lastItem.isHidden
    /\ ~m_hiddenFilesShown
    /\ ~m_hiddenWhitelistEnabled
    /\ Whitelisted(lastItem)
    /\ filterVerdict(this, lastItem)
    /\ ~lastResult

\* the MIME type is in no entry of the exclude list and, unless the include
\* list is empty, is an entry of the include list
TypeAccepted(item) ==
    /\ item.mimetype \notin Range(m_excludeMimeTypes)
    /\ (m_mimeTypes = <<>> \/ item.mimetype \in Range(m_mimeTypes))

\* C2: with an empty pattern and a MIME list set, an item that passes the
\* hidden-file gate matches exactly when its MIME type is in no entry of
\* the exclude list and the include list is empty or holds it; the lists
\* count as sets (order and duplicates do not matter), and exclusion wins.
C2_Theorem ==
    (m_pattern = <<>> /\ (m_mimeTypes # <<>> \/ m_excludeMimeTypes # <<>>)) =>
        /\ \A item \in KFileItems :
               PassesGate(item) => (matches(this, item) <=> TypeAccepted(item))
        /\ (lastCall = "matches" /\ PassesGate(lastItem)) =>
               (lastResult <=> TypeAccepted(lastItem))

\* matches() rejected an item whose MIME type is in both lists, the include
\* list holding two entries
C2_Witness ==
    /\ lastCall = "matches"
    /\ m_pattern = <<>>
    /\ PassesGate(lastItem)
    /\ Len(m_mimeTypes) = 2
    /\ lastItem.mimetype \in Range(m_mimeTypes)
    /\ lastItem.mimetype \in Range(m_excludeMimeTypes)
    /\ ~lastResult

\* what C3 says matches() is for an item that passes the gate
C3_Expected(item) ==
    LET hasName == pattern(this) # <<>>
        hasMime == mimeTypes(this) # <<>> \/ excludeMimeTypes(this) # <<>>
    IN  CASE ~hasName /\ ~hasMime -> TRUE
          [] hasName /\ hasMime   -> matchesPattern(this, item) /\ matchesType(this, item)
          [] hasName /\ ~hasMime  -> matchesPattern(this, item)
          [] ~hasName /\ hasMime  -> matchesType(this, item)

\* C3: for an item that is not hidden, or with hidden files shown, matches()
\* is TRUE with no filter set, matchesPattern and matchesType with both set,
\* and the one that is set otherwise; an exclude list alone is a MIME filter.
C3_Theorem ==
    /\ \A item \in KFileItems :
           GateOpen(item) => (matches(this, item) = C3_Expected(item))
    /\ (lastCall = "matches" /\ GateOpen(lastItem)) =>
           (lastResult = C3_Expected(lastItem))

\* matches() rejected an item on the exclude list alone
C3_Witness ==
    /\ lastCall = "matches"
    /\ GateOpen(lastItem)
    /\ m_pattern = <<>>
    /\ m_mimeTypes = <<>>
    /\ m_excludeMimeTypes # <<>>
    /\ ~lastResult

\* the same item, not hidden
Unhidden(item) == [item EXCEPT !.isHidden = FALSE]

\* C4: with hidden files not shown and the whitelist enabled, a hidden item
\* a compiled matcher matches gets the verdict of the same item not hidden
\* (the pattern and MIME filters still apply); one no matcher matches gets
\* FALSE.
C4_Theorem ==
    (~m_hiddenFilesShown /\ m_hiddenWhitelistEnabled) =>
        /\ \A item \in KFileItems :
               item.isHidden =>
                   IF Whitelisted(item)
                   THEN matches(this, item) = matches(this, Unhidden(item))
                   ELSE ~matches(this, item)
        /\ (lastCall = "matches" /\ lastItem.isHidden) =>
               IF Whitelisted(lastItem)
               THEN lastResult = matches(this, Unhidden(lastItem))
               ELSE ~lastResult

\* matches() rejected a whitelisted hidden item because of another filter
C4_Witness ==
    /\ lastCall = "matches"
    /\ lastItem.isHidden
    /\ ~m_hiddenFilesShown
    /\ m_hiddenWhitelistEnabled
    /\ Whitelisted(lastItem)
    /\ ~lastResult

\* what C5 says hasSetFilters() is
C5_Expected ==
    \/ pattern(this) # <<>>
    \/ mimeTypes(this) # <<>>
    \/ excludeMimeTypes(this) # <<>>
    \/ ~hiddenFilesShown(this)

\* C5: hasSetFilters() is true exactly when the pattern or a MIME list is
\* non-empty or hidden files are not shown; it is false on the fresh object,
\* true right after setHiddenFilesShown(false), and the two whitelist
\* setters never change it.
C5_Theorem ==
    /\ hasSetFilters(this) = C5_Expected
    /\ lastCall = "hasSetFilters" => lastResult = C5_Expected
    /\ lastCall = "KFileItemModelFilter" => ~hasSetFilters(this)
    /\ (lastCall = "setHiddenFilesShown" /\ ~m_hiddenFilesShown) => hasSetFilters(this)
    /\ \A enabled \in BOOLEAN :
           hasSetFilters(setHiddenFilesWhitelistEnabled(this, enabled))
               = hasSetFilters(this)
    /\ \A list \in Seqs(WhitelistEntries, 1) \cup FewWhitelists :
           hasSetFilters(setHiddenFilesWhitelist(this, list)) = hasSetFilters(this)

\* hasSetFilters() returned true with nothing set but hidden files not shown
C5_Witness ==
    /\ lastCall = "hasSetFilters"
    /\ lastResult
    /\ m_pattern = <<>>
    /\ m_mimeTypes = <<>>
    /\ m_excludeMimeTypes = <<>>
    /\ ~m_hiddenFilesShown

\* C6: with an empty pattern, empty MIME lists and hidden files shown (that
\* is, hasSetFilters() false), matches() is true for every item, hidden or
\* not, whatever the whitelist flag and patterns are.
C6_Theorem ==
    (\/ m_pattern = <<>> /\ m_mimeTypes = <<>> /\ m_excludeMimeTypes = <<>>
        /\ m_hiddenFilesShown
     \/ ~hasSetFilters(this)) =>
        /\ \A item \in KFileItems : matches(this, item)
        /\ lastCall = "matches" => lastResult

\* matches() accepted a hidden item the enabled whitelist does not name
C6_Witness ==
    /\ lastCall = "matches"
    /\ lastItem.isHidden
    /\ lastResult
    /\ ~hasSetFilters(this)
    /\ m_hiddenWhitelistEnabled
    /\ m_hiddenWhitelist # <<>>
    /\ ~Whitelisted(lastItem)

\* the matcher compiled from the pattern set last
LatestMatcher == RegExp(wildcardToRegularExpression(m_pattern))

\* wildcard mode as C7 has it
WildcardMode == containsWildcard(m_pattern) /\ isValid(LatestMatcher)

\* C7: the mode follows the pattern set last alone: wildcard mode exactly
\* when it holds '*', '?' or '[' and compiles, and then its own matcher
\* decides; substring mode otherwise, on the lowercased name against the
\* lowercased pattern.  No earlier matcher decides a match.
C7_Theorem ==
    /\ m_useRegExp = WildcardMode
    /\ \A item \in KFileItems :
           matchesPattern(this, item) =
               IF WildcardMode
               THEN hasMatch(LatestMatcher, item.text)
               ELSE containsStr(toLower(item.text), toLower(m_pattern))
    /\ (lastCall = "matches" /\ GateOpen(lastItem) /\ m_pattern # <<>>
            /\ m_mimeTypes = <<>> /\ m_excludeMimeTypes = <<>>) =>
           lastResult =
               IF WildcardMode
               THEN hasMatch(LatestMatcher, lastItem.text)
               ELSE containsStr(toLower(lastItem.text), toLower(m_pattern))

\* matches() decided by substring while the matcher of an earlier wildcard
\* pattern, still held and valid, would have said the opposite
C7_Witness ==
    /\ lastCall = "matches"
    /\ GateOpen(lastItem)
    /\ m_pattern # <<>>
    /\ ~containsWildcard(m_pattern)
    /\ m_mimeTypes = <<>>
    /\ m_excludeMimeTypes = <<>>
    /\ m_regExp # <<>>
    /\ isValid(m_regExp[1])
    /\ hasMatch(m_regExp[1], lastItem.text) # lastResult

\* the matcher an entry stands for, once trimmed
EntryMatcher(t) ==
    RegExp(IF containsWildcard(t)
           THEN wildcardToRegularExpression(t)
           ELSE exactPattern(t))

NonEmptyEntry(e) == trimmed(e) # <<>>

CompilableEntry(e) == NonEmptyEntry(e) /\ isValid(EntryMatcher(trimmed(e)))

MatchersOf(entries) ==
    [k \in 1..Len(entries) |-> EntryMatcher(trimmed(entries[k]))]

\* calling setHiddenFilesWhitelist again with the list held changes nothing,
\* and no other setter touches the compiled list
C8_OnlyItsSetter ==
    /\ setHiddenFilesWhitelist(this, hiddenFilesWhitelist(this)) = this
    /\ \A filter \in Patterns :
           setPattern(this, filter).m_hiddenWhitelistRegExps
               = m_hiddenWhitelistRegExps
    /\ \A types \in FewMimeLists :
           /\ setMimeTypes(this, types).m_hiddenWhitelistRegExps
                  = m_hiddenWhitelistRegExps
           /\ setExcludeMimeTypes(this, types).m_hiddenWhitelistRegExps
                  = m_hiddenWhitelistRegExps
    /\ \A b \in BOOLEAN :
           /\ setHiddenFilesShown(this, b).m_hiddenWhitelistRegExps
                  = m_hiddenWhitelistRegExps
           /\ setHiddenFilesWhitelistEnabled(this, b).m_hiddenWhitelistRegExps
                  = m_hiddenWhitelistRegExps

\* C8 as stated: the compiled list is, in list order, one case-insensitive
\* matcher per entry that is non-empty after trimming (a glob matcher for a
\* wildcard entry, an anchored exact matcher otherwise), nothing else;
\* only setHiddenFilesWhitelist changes it, and twice is once.
C8_AsStated ==
    /\ m_hiddenWhitelistRegExps
           = MatchersOf(SelectSeq(m_hiddenWhitelist, NonEmptyEntry))
    /\ C8_OnlyItsSetter

\* C8 as amended: one matcher per entry that is non-empty after trimming
\* and, when a wildcard entry, compiles to a valid matcher.
C8_Theorem ==
    /\ m_hiddenWhitelistRegExps
           = MatchersOf(SelectSeq(m_hiddenWhitelist, CompilableEntry))
    /\ \A k \in 1..Len(m_hiddenWhitelistRegExps) :
           m_hiddenWhitelistRegExps[k].caseInsensitive
    /\ C8_OnlyItsSetter

\* setHiddenFilesWhitelist was given a list of two entries, one of them a
\* wildcard entry that does not compile, and compiled one matcher
C8_Witness ==
    /\ lastCall = "setHiddenFilesWhitelist"
    /\ Len(m_hiddenWhitelist) = 2
    /\ Len(m_hiddenWhitelistRegExps) = 1
    /\ \E i \in 1..2 :
           NonEmptyEntry(m_hiddenWhitelist[i]) /\ ~CompilableEntry(m_hiddenWhitelist[i])

\* lists handed to setHiddenFilesWhitelist to read back
ReadBackLists ==
    Seqs(WhitelistEntries, 1)
        \cup { << <<" ">>, <<" ", ".", "A", " ">>, <<"[">> >> }

\* a hidden item of that name
HiddenItem(name) == [text |-> name, isHidden |-> TRUE, mimetype |-> "text/plain"]

\* C9: an entry empty after trimming, or a wildcard entry that does not
\* compile, gives no matcher, and every other entry of the list, before or
\* after it, still whitelists the names it matches; hiddenFilesWhitelist()
\* returns the list as it was given.
C9_Theorem ==
    /\ Len(m_hiddenWhitelistRegExps)
           = Cardinality({i \in 1..Len(m_hiddenWhitelist) :
                              CompilableEntry(m_hiddenWhitelist[i])})
    /\ \A name \in Names :
           matchesHiddenWhitelist(this, HiddenItem(name)) <=>
               \E i \in 1..Len(m_hiddenWhitelist) :
                   /\ CompilableEntry(m_hiddenWhitelist[i])
                   /\ hasMatch(EntryMatcher(trimmed(m_hiddenWhitelist[i])), name)
    /\ \A list \in ReadBackLists :
           hiddenFilesWhitelist(setHiddenFilesWhitelist(this, list)) = list

\* setHiddenFilesWhitelist was given a dropped entry followed by a good
\* one, and matches() then accepted a hidden item through the good one
C9_Witness ==
    /\ lastCall = "matches"
    /\ lastItem.isHidden
    /\ lastResult
    /\ ~m_hiddenFilesShown
    /\ m_hiddenWhitelistEnabled
    /\ Len(m_hiddenWhitelist) = 2
    /\ ~CompilableEntry(m_hiddenWhitelist[1])
    /\ CompilableEntry(m_hiddenWhitelist[2])

\* a fresh filter given the pattern and the MIME lists of f, nothing else
sameFilters(f) ==
    setExcludeMimeTypes(
        setMimeTypes(setPattern(KFileItemModelFilter, pattern(f)), mimeTypes(f)),
        excludeMimeTypes(f))

\* C10: an item that is not hidden gets the verdict of the filter that has
\* the same pattern and MIME lists and default hidden-file settings, so any
\* two filters with the same pattern and MIME lists agree on it; and an
\* item that matches with hidden files not shown matches with them shown.
C10_Theorem ==
    \A item \in KFileItems :
        /\ ~item.isHidden =>
               matches(this, item) = matches(sameFilters(this), item)
        /\ matches(setHiddenFilesShown(this, FALSE), item) =>
               matches(setHiddenFilesShown(this, TRUE), item)

\* matches() accepted an item that is not hidden while hidden files are not
\* shown, the whitelist is enabled and lets some hidden item through
C10_Witness ==
    /\ lastCall = "matches"
    /\ ~lastItem.isHidden
    /\ lastResult
    /\ ~m_hiddenFilesShown
    /\ m_hiddenWhitelistEnabled
    /\ m_pattern # <<>>
    /\ \E item \in KFileItems : item.isHidden /\ matches(this, item)

====
